---- MODULE Spec2Model ----
(***************************************************************************)
(* A model of saiteki_qa_bot: the Slack mention handler and its message    *)
(* builder (bot.py), the lazily initialised answer engine                  *)
(* (saiteki_qa_agent.py) and the ingestion run (store_to_vectordb.py).     *)
(***************************************************************************)
EXTENDS Integers, Sequences, FiniteSets, TLC

VARIABLES
    env,            \* os.environ: the set of environment variables that are set
    fpc,            \* score formatting: "off", "input", "shown"
    score,          \* the similarity score, in units of 1/ScoreDen
    shown,          \* the percentage _message_builder puts in the bullet line
    ipc,            \* ingestion run: the stage of __main__, "done", "failed" or "off"
    site,           \* the help-center site: what each listing page holds
    rootIdx,        \* get_documents_from_urls: the next entry of urls
    part_page_urls, \* get_documents_from_urls: sub-sections still to visit
    content_urls,   \* get_documents_from_urls: the article URLs found so far
    documents,      \* _generate_documents: the documents made so far
    requests,       \* every URL _request was called with, in order
    index,          \* the vector index: previous contents kept?, documents stored
    indexOps,       \* the operations issued on the vector index, in order
    ierror,         \* the exception that ended the ingestion run, or NoError
    bpc,            \* bot.py: "off", "startup", "serving", "exited"
    apc,            \* a SaitekiQaAgent used directly: "off", "constructed"
    qa_chain,       \* SaitekiQaAgent.qa_chain: NoChain, or the pipeline it holds
    bindCalls,      \* calls of PineconeWithScore.from_existing_index so far
    calls,          \* the calls of run and initialize_chain so far, with their ends
    mentions,       \* the app_mention events handled so far, with what run gave
    said,           \* the calls of say so far
    escaped         \* the exceptions that left respond_to_mention

fmtVars == <<fpc, score, shown>>
agentVars == <<apc, qa_chain, bindCalls, calls>>
botVars == <<bpc, mentions, said, escaped>>
ingestVars == <<ipc, site, rootIdx, part_page_urls, content_urls, documents,
                requests, index, indexOps, ierror>>
vars == <<env, fmtVars, ingestVars, agentVars, botVars>>

(***************************************************************************)
(* Python floats (IEEE-754 binary64).  A positive float is a significand   *)
(* of 53 bits and the exponent e of its leading bit.  The significand is   *)
(* kept as limbs, most significant first: the leading bit alone, then      *)
(* four limbs of 13 bits (52 = 4 * 13): the value is                       *)
(* (m as a number in base Base) * 2^(e - 52).                              *)
(***************************************************************************)
RECURSIVE Pow2(_)
Pow2(k) == IF k = 0 THEN 1 ELSE 2 * Pow2(k - 1)

Base == Pow2(13)

\* Scores are drawn from the decimals n / ScoreDen, 0 <= n <= ScoreDen.
ScoreDen == 1000

Zeros(k) == [i \in 1..k |-> 0]

Zero == [m |-> Zeros(5), e |-> 0]

IsZero(f) == f.m[1] = 0

\* a + 1, limb by limb from the last; the first limb takes the final carry.
RECURSIVE IncrLimbs(_)
IncrLimbs(a) ==
    LET n == Len(a)
    IN  IF n = 1 THEN <<a[1] + 1>>
        ELSE IF a[n] + 1 < Base THEN SubSeq(a, 1, n - 1) \o <<a[n] + 1>>
        ELSE IncrLimbs(SubSeq(a, 1, n - 1)) \o <<0>>

\* The next float above [m, e]: a carry out of the significand moves the exponent.
RoundUp(m, e) ==
    LET u == IncrLimbs(m)
    IN  IF u[1] = 2 THEN [m |-> <<1>> \o Zeros(4), e |-> e + 1]
        ELSE [m |-> u, e |-> e]

\* Round to nearest, ties to even: the dropped part is rem / c of a unit in
\* the last place.
RoundNearestEven(m, e, rem, c) ==
    IF 2 * rem > c \/ (2 * rem = c /\ m[Len(m)] % 2 = 1) THEN RoundUp(m, e)
    ELSE [m |-> m, e |-> e]

\* Long division of the limbs a by c, r the remainder carried in: the
\* quotient's limbs (the first one is not reduced) and the remainder left.
RECURSIVE DivLimbs(_, _, _)
DivLimbs(a, c, r) ==
    IF a = <<>> THEN [q |-> <<>>, r |-> r]
    ELSE LET t == r * Base + a[1]
             rest == DivLimbs(Tail(a), c, t % c)
         IN  [q |-> <<t \div c>> \o rest.q, r |-> rest.r]

\* a * c + carry, limb by limb from the last; the first limb is not reduced.
RECURSIVE MulLimbs(_, _, _)
MulLimbs(a, c, carry) ==
    LET n == Len(a)
        t == a[n] * c + carry
    IN  IF n = 1 THEN <<t>>
        ELSE MulLimbs(SubSeq(a, 1, n - 1), c, t \div Base) \o <<t % Base>>

\* x doubled until d <= x: n / d = (x / d) * 2^e with 1 <= x / d < 2.
RECURSIVE ScaleUp(_, _, _)
ScaleUp(x, d, e) ==
    IF x >= d THEN [x |-> x, e |-> e] ELSE ScaleUp(2 * x, d, e - 1)

\* The float nearest to the fraction n / d, 0 <= n <= d: what reading the
\* decimal gives.
FromRatio(n, d) ==
    IF n = 0 THEN Zero
    ELSE LET s == ScaleUp(n, d, 0)
             q == DivLimbs(<<s.x>> \o Zeros(4), d, 0)
         IN  RoundNearestEven(q.q, s.e, q.r, d)

\* round(x, 2) as a count of hundredths, for 0 <= x <= 1: the exact value
\* of x * 100 rounded to the nearest integer, an exact half going to the
\* even one.  x * 100 is p[1] + (the other limbs of p) / 2^52, over 2^-e.
Hundredths(f) ==
    IF IsZero(f) THEN 0
    ELSE LET p == MulLimbs(f.m, 100, 0)
             low == SubSeq(p, 2, Len(p))
             lowZero == \A i \in 1..Len(low) : low[i] = 0
             c == Pow2(0 - f.e)
             ip == p[1] \div c
             rem == p[1] % c
             above == IF c = 1
                      THEN 2 * low[1] > Base
                           \/ (2 * low[1] = Base /\ \E i \in 2..Len(low) : low[i] # 0)
                      ELSE 2 * rem > c \/ (2 * rem = c /\ ~lowZero)
             tie == IF c = 1 THEN 2 * low[1] = Base /\ \A i \in 2..Len(low) : low[i] = 0
                    ELSE 2 * rem = c /\ lowZero
         IN  IF above \/ (tie /\ ip % 2 = 1) THEN ip + 1 ELSE ip

\* round(x, 2): the float nearest to that many hundredths.
PyRound2(f) == FromRatio(Hundredths(f), 100)

\* x * 100: the exact product, 59 or 60 bits, rounded to 53.
Times100(f) ==
    IF IsZero(f) THEN Zero
    ELSE LET p == MulLimbs(f.m, 100, 0)
             s == IF p[1] < 128 THEN 6 ELSE 7
             q == DivLimbs(p, Pow2(s), 0)
         IN  RoundNearestEven(q.q, f.e + s, q.r, Pow2(s))

\* int(x) for 0 <= x < 2^13: the fraction is cut off.
PyInt(f) ==
    IF IsZero(f) \/ f.e < 0 THEN 0
    ELSE f.m[1] * Pow2(f.e) + (f.m[2] \div Pow2(13 - f.e))

ToFloat(n) == FromRatio(n, ScoreDen)

\* str(int((round(score, 2) * 100))), as the integer the string spells.
ScoreText(n) == PyInt(Times100(PyRound2(ToFloat(n))))

(***************************************************************************)
(* Environment variables.                                                  *)
(***************************************************************************)
SlackVars == {"SLACK_BOT_TOKEN", "SLACK_APP_TOKEN"}

PineconeVars == {"PINECONE_API_KEY", "PINECONE_ENV", "PINECONE_INDEX_NAME"}

EnvVars == SlackVars \cup PineconeVars

NoError == "NoError"

\* The try block around the three os.environ reads: any missing key raises
\* the one configuration Exception.
PineconeConfigError ==
    IF PineconeVars \subseteq env THEN NoError ELSE "ConfigException"

(***************************************************************************)
(* The ingestion run (store_to_vectordb.py).                               *)
(***************************************************************************)
\* A listing page holds at most MaxLinks headers or links.
MaxLinks == 2

Origin == "https://support.saiteki.works"

RootPaths == <<"/categories/1", "/categories/2">>

SectionPaths == {"/sections/1", "/sections/2"}

ArticlePaths == {"/articles/1", "/articles/2"}

\* An h2 header that holds no anchor.
NoAnchor == "<h2 without a>"

SeqsUpTo(S, n) == UNION {[1..k -> S] : k \in 0..n}

_get_url_by_path(path) == <<Origin, path>>

root_urls == [i \in 1..Len(RootPaths) |-> _get_url_by_path(RootPaths[i])]

\* A site: the h2 headers of each category page (each the href of its first
\* anchor, or NoAnchor) and the article-list-link hrefs of each section page.
Sites ==
    [cat : [{RootPaths[i] : i \in 1..Len(RootPaths)} ->
                SeqsUpTo(SectionPaths \cup {NoAnchor}, MaxLinks)],
     sec : [SectionPaths -> SeqsUpTo(ArticlePaths, MaxLinks)]]

EmptySite ==
    [cat |-> [p \in {RootPaths[i] : i \in 1..Len(RootPaths)} |-> <<>>],
     sec |-> [p \in SectionPaths |-> <<>>]]

\* Mutant: the index is emptied before the crawl.
DeleteFirstOrder == <<"construct_store", "delete", "get_documents", "store">>

\* The stages of __main__, in program order.
MainOrder == <<"get_documents", "construct_store", "delete", "store">>

NextStage(s) ==
    IF \E k \in 1..(Len(MainOrder) - 1) : MainOrder[k] = s
    THEN MainOrder[(CHOOSE k \in 1..(Len(MainOrder) - 1) : MainOrder[k] = s) + 1]
    ELSE "done"

\* _get_page_urls after its request: h2.find('a') is None for a header with
\* no anchor, and None.get raises.
PagePaths(h2s) ==
    IF \E i \in 1..Len(h2s) : h2s[i] = NoAnchor
    THEN [error |-> "AttributeError", paths |-> <<>>]
    ELSE [error |-> NoError, paths |-> h2s]

UrlList(paths) == [i \in 1..Len(paths) |-> _get_url_by_path(paths[i])]

\* Mutant: an article URL that was already found is skipped.
ExtendWithoutDuplicates(urls, found) ==
    LET IsNew(u) == \A i \in 1..Len(urls) : urls[i] # u
    IN  urls \o SelectSeq(found, IsNew)

\* content_urls += self.__get_article_urls(part_url)
ExtendContentUrls(urls, found) == urls \o found

\* generate_document after its request.
MakeDocument(url) ==
    [page_content |-> <<"text", url[2]>>,
     metadata |-> [source |-> url, title |-> <<"title", url[2]>>]]

CrawlDone == rootIdx > Len(root_urls) /\ part_page_urls = <<>>

IngestFail(err) ==
    /\ ipc' = "failed"
    /\ ierror' = [stage |-> ipc, error |-> err]

IngestStart(sites) ==
    /\ ipc = MainOrder[1]
    /\ site \in sites
    /\ rootIdx = 1
    /\ part_page_urls = <<>>
    /\ content_urls = <<>>
    /\ documents = <<>>
    /\ requests = <<>>
    /\ index = [previous |-> TRUE, stored |-> <<>>]
    /\ indexOps = <<>>
    /\ ierror = [stage |-> "none", error |-> NoError]

IngestOff ==
    /\ ipc = "off"
    /\ site = EmptySite
    /\ rootIdx = 1
    /\ part_page_urls = <<>>
    /\ content_urls = <<>>
    /\ documents = <<>>
    /\ requests = <<>>
    /\ index = [previous |-> TRUE, stored |-> <<>>]
    /\ indexOps = <<>>
    /\ ierror = [stage |-> "none", error |-> NoError]

\* for url in urls: part_page_urls = self._get_page_urls(url)
GetPageUrls ==
    /\ ipc = "get_documents"
    /\ part_page_urls = <<>>
    /\ rootIdx <= Len(root_urls)
    /\ requests' = Append(requests, root_urls[rootIdx])
    /\ \E ok \in BOOLEAN :
         LET got == PagePaths(site.cat[root_urls[rootIdx][2]])
         IN  IF ~ok THEN
                 /\ IngestFail("RequestException")
                 /\ UNCHANGED <<rootIdx, part_page_urls>>
             ELSE IF got.error # NoError THEN
                 /\ IngestFail(got.error)
                 /\ UNCHANGED <<rootIdx, part_page_urls>>
             ELSE
                 /\ part_page_urls' = UrlList(got.paths)
                 /\ rootIdx' = rootIdx + 1
                 /\ UNCHANGED <<ipc, ierror>>
    /\ UNCHANGED <<env, fmtVars, agentVars, botVars, site, content_urls, documents, index, indexOps>>

\* for part_url in part_page_urls: content_urls += self.__get_article_urls(part_url)
GetArticleUrls ==
    /\ ipc = "get_documents"
    /\ part_page_urls # <<>>
    /\ requests' = Append(requests, Head(part_page_urls))
    /\ \E ok \in BOOLEAN :
         IF ~ok THEN
             /\ IngestFail("RequestException")
             /\ UNCHANGED <<part_page_urls, content_urls>>
         ELSE
             /\ content_urls' = ExtendContentUrls(content_urls,
                                    UrlList(site.sec[Head(part_page_urls)[2]]))
             /\ part_page_urls' = Tail(part_page_urls)
             /\ UNCHANGED <<ipc, ierror>>
    /\ UNCHANGED <<env, fmtVars, agentVars, botVars, site, rootIdx, documents, index, indexOps>>

\* _generate_documents: documents.append(self.generate_document(url))
GenerateDocument ==
    /\ ipc = "get_documents"
    /\ CrawlDone
    /\ Len(documents) < Len(content_urls)
    /\ LET url == content_urls[Len(documents) + 1]
       IN  /\ requests' = Append(requests, url)
           /\ \E ok \in BOOLEAN :
                IF ~ok THEN
                    /\ IngestFail("RequestException")
                    /\ UNCHANGED documents
                ELSE
                    /\ documents' = Append(documents, MakeDocument(url))
                    /\ UNCHANGED <<ipc, ierror>>
    /\ UNCHANGED <<env, fmtVars, agentVars, botVars, site, rootIdx, part_page_urls, content_urls,
                   index, indexOps>>

\* return documents
ReturnDocuments ==
    /\ ipc = "get_documents"
    /\ CrawlDone
    /\ Len(documents) = Len(content_urls)
    /\ ipc' = NextStage(ipc)
    /\ UNCHANGED <<env, fmtVars, agentVars, botVars, site, rootIdx, part_page_urls, content_urls,
                   documents, requests, index, indexOps, ierror>>

\* store = VectorStore()
ConstructStore ==
    /\ ipc = "construct_store"
    /\ \E ok \in BOOLEAN :
         IF PineconeConfigError # NoError THEN IngestFail(PineconeConfigError)
         ELSE IF ~ok THEN IngestFail("PineconeError")
         ELSE ipc' = NextStage(ipc) /\ UNCHANGED ierror
    /\ UNCHANGED <<env, fmtVars, agentVars, botVars, site, rootIdx, part_page_urls, content_urls,
                   documents, requests, index, indexOps>>

\* store.delete_all_indexes()
DeleteAllIndexes ==
    /\ ipc = "delete"
    /\ indexOps' = Append(indexOps, "delete")
    /\ \E ok \in BOOLEAN :
         IF ~ok THEN IngestFail("PineconeError") /\ UNCHANGED index
         ELSE /\ index' = [previous |-> FALSE, stored |-> <<>>]
              /\ ipc' = NextStage(ipc)
              /\ UNCHANGED ierror
    /\ UNCHANGED <<env, fmtVars, agentVars, botVars, site, rootIdx, part_page_urls, content_urls,
                   documents, requests>>

\* store.store_to_vectoredb(documents): a failure leaves the documents
\* upserted before it.
StoreToVectordb ==
    /\ ipc = "store"
    /\ indexOps' = Append(indexOps, "store")
    /\ \/ /\ index' = [index EXCEPT !.stored = @ \o documents]
          /\ ipc' = NextStage(ipc)
          /\ UNCHANGED ierror
       \/ \E k \in 0..Len(documents) :
          /\ index' = [index EXCEPT !.stored = @ \o SubSeq(documents, 1, k)]
          /\ IngestFail("StoreError")
    /\ UNCHANGED <<env, fmtVars, agentVars, botVars, site, rootIdx, part_page_urls, content_urls,
                   documents, requests>>

IngestNext ==
    \/ GetPageUrls
    \/ GetArticleUrls
    \/ GenerateDocument
    \/ ReturnDocuments
    \/ ConstructStore
    \/ DeleteAllIndexes
    \/ StoreToVectordb

FmtOff == fpc = "off" /\ score = 0 /\ shown = -1

(***************************************************************************)
(* The answer engine (saiteki_qa_agent.py).                                *)
(***************************************************************************)
\* A query retrieves at most MaxDocs documents.
MaxDocs == 2

\* A directly used agent is called at most MaxCalls times.
MaxCalls == 3

\* The bot handles at most MaxEvents mention events.
MaxEvents == 2

\* Python's None where a string may stand.
None == "None"

\* self.qa_chain = None
NoChain == <<"None">>

\* The RetrievalQA chain built on the n-th binding to the index.
Pipeline(n) == <<"RetrievalQA", n>>

NoExc == [cls |-> "none", args |-> <<>>]

Exc(cls, msg) == [cls |-> cls, args |-> <<msg>>]

ConfigMessage == "PINECONE_API_KEY, PINECONE_ENV, PINECONE_INDEX_NAME must be set"

\* What the library calls of initialize_chain may do: all succeed, or the
\* named one raises.
InitOutcomes == {"ok", "OpenAIEmbeddings", "from_existing_index", "from_chain_type"}

\* The documents the index may return, with the score similarity_search
\* puts in their metadata.
StoredDocs ==
    {[metadata |-> [source |-> _get_url_by_path("/articles/1"),
                    title |-> <<"title", "/articles/1">>, score |-> 873]],
     [metadata |-> [source |-> _get_url_by_path("/articles/2"),
                    title |-> <<"title", "/articles/2">>, score |-> 290]]}

\* What calling the chain may do: raise, or answer with the documents used.
ChainOutcomes ==
    {[raised |-> TRUE, source_documents |-> <<>>]}
    \cup {[raised |-> FALSE, source_documents |-> ds] : ds \in SeqsUpTo(StoredDocs, MaxDocs)}

ExtOutcomes == [init : InitOutcomes, chain : ChainOutcomes]

\* Mutant: the old pipeline is dropped before the new one is built.
InitializeChainDroppingFirst(ag, ext) ==
    IF ext = "OpenAIEmbeddings"
    THEN [qa_chain |-> NoChain, bindCalls |-> ag.bindCalls,
          exc |-> Exc("ValidationError", "OpenAIEmbeddings")]
    ELSE IF PineconeConfigError # NoError
    THEN [qa_chain |-> NoChain, bindCalls |-> ag.bindCalls,
          exc |-> Exc("Exception", ConfigMessage)]
    ELSE IF ext \in {"from_existing_index", "from_chain_type"}
    THEN [qa_chain |-> NoChain, bindCalls |-> ag.bindCalls + 1,
          exc |-> Exc("ExternalError", ext)]
    ELSE [qa_chain |-> Pipeline(ag.bindCalls + 1), bindCalls |-> ag.bindCalls + 1, exc |-> NoExc]

\* initialize_chain on the agent ag = [qa_chain, bindCalls]: the agent after
\* the call and the exception raised.  The pipeline built on the n-th index
\* binding is pipeline n.
InitializeChain(ag, ext) ==
    IF ext = "OpenAIEmbeddings"
    THEN [qa_chain |-> ag.qa_chain, bindCalls |-> ag.bindCalls,
          exc |-> Exc("ValidationError", "OpenAIEmbeddings")]
    ELSE IF PineconeConfigError # NoError
    THEN [qa_chain |-> ag.qa_chain, bindCalls |-> ag.bindCalls,
          exc |-> Exc("Exception", ConfigMessage)]
    ELSE IF ext \in {"from_existing_index", "from_chain_type"}
    THEN [qa_chain |-> ag.qa_chain, bindCalls |-> ag.bindCalls + 1,
          exc |-> Exc("ExternalError", ext)]
    ELSE [qa_chain |-> Pipeline(ag.bindCalls + 1), bindCalls |-> ag.bindCalls + 1, exc |-> NoExc]

\* Mutant: run builds the pipeline on every call.
NeedsInitializeAlways(ag) == TRUE

\* if self.qa_chain is None
NeedsInitialize(ag) == ag.qa_chain = NoChain

SourceDocument(doc) ==
    [title |-> doc.metadata.title, url |-> doc.metadata.source,
     score |-> doc.metadata.score]

\* run(prompt): the agent after the call, the exception raised and, when
\* none was, the result.
Run(ag, prompt, ext) ==
    LET a1 == IF NeedsInitialize(ag) THEN InitializeChain(ag, ext.init)
              ELSE [qa_chain |-> ag.qa_chain, bindCalls |-> ag.bindCalls, exc |-> NoExc]
        noResult == [answer_text |-> [kind |-> "none"], source_documents |-> <<>>]
    IN  IF a1.exc # NoExc
        THEN [qa_chain |-> a1.qa_chain, bindCalls |-> a1.bindCalls, exc |-> a1.exc,
              result |-> noResult]
        ELSE IF ext.chain.raised
        THEN [qa_chain |-> a1.qa_chain, bindCalls |-> a1.bindCalls,
              exc |-> Exc("ExternalError", "qa_chain"), result |-> noResult]
        ELSE [qa_chain |-> a1.qa_chain, bindCalls |-> a1.bindCalls, exc |-> NoExc,
              result |->
                  [answer_text |-> [kind |-> "llm", prompt |-> prompt],
                   source_documents |->
                       [i \in 1..Len(ext.chain.source_documents) |->
                            SourceDocument(ext.chain.source_documents[i])]]]

Agent == [qa_chain |-> qa_chain, bindCalls |-> bindCalls]

CallRecord(op, a) ==
    [op |-> op, exc |-> a.exc, chain |-> a.qa_chain, binds |-> a.bindCalls]

AgentOff ==
    /\ apc = "off"
    /\ qa_chain = NoChain
    /\ bindCalls = 0
    /\ calls = <<>>

\* saiteki_qa_agent = SaitekiQaAgent()
AgentStart ==
    /\ apc = "constructed"
    /\ qa_chain = NoChain
    /\ bindCalls = 0
    /\ calls = <<>>

\* A caller runs a question on the agent.
AgentRun ==
    /\ apc = "constructed"
    /\ Len(calls) < MaxCalls
    /\ \E ext \in ExtOutcomes :
         LET a == Run(Agent, "question", ext)
         IN  /\ qa_chain' = a.qa_chain
             /\ bindCalls' = a.bindCalls
             /\ calls' = Append(calls, CallRecord("run", a))
    /\ UNCHANGED <<env, fmtVars, ingestVars, apc, botVars>>

\* A caller initializes the chain itself.
AgentInitializeChain ==
    /\ apc = "constructed"
    /\ Len(calls) < MaxCalls
    /\ \E ext \in InitOutcomes :
         LET a == InitializeChain(Agent, ext)
         IN  /\ qa_chain' = a.qa_chain
             /\ bindCalls' = a.bindCalls
             /\ calls' = Append(calls, CallRecord("initialize_chain", a))
    /\ UNCHANGED <<env, fmtVars, ingestVars, apc, botVars>>

AgentNext == AgentRun \/ AgentInitializeChain

(***************************************************************************)
(* The Slack bot (bot.py).                                                 *)
(***************************************************************************)
MentionLine(user) == [kind |-> "mention", user |-> user]

AnswerLine(text) == [kind |-> "answer", text |-> text]

BlankLine == [kind |-> "blank"]

\* The related-articles header line.
HeaderLine == [kind |-> "header"]

BulletLine(url, title, percent) ==
    [kind |-> "bullet", url |-> url, title |-> title, percent |-> percent]

\* Mutant: the header is written whether or not there are documents.
MessageWithHeaderAlways(event, result) ==
    LET docs == result.source_documents
    IN  <<MentionLine(event.user), AnswerLine(result.answer_text), BlankLine, HeaderLine>>
        \o [i \in 1..Len(docs) |->
              BulletLine(docs[i].url, docs[i].title, ScoreText(docs[i].score))]

\* _message_builder(event, result): the message, line by line.
_message_builder(event, result) ==
    LET docs == result.source_documents
        head == <<MentionLine(event.user), AnswerLine(result.answer_text), BlankLine>>
    IN  IF Len(docs) > 0
        THEN head \o <<HeaderLine>>
             \o [i \in 1..Len(docs) |->
                   BulletLine(docs[i].url, docs[i].title, ScoreText(docs[i].score))]
        ELSE head

\* Mutant: the handler lets the exception of run through.
TryRunUncaught(r) == [result |-> r.result, escaped |-> r.exc]

\* try: result = qa.run(...)  except Exception as e: result = {...}
TryRun(r) ==
    IF r.exc = NoExc THEN [result |-> r.result, escaped |-> NoExc]
    ELSE [result |-> [answer_text |-> [kind |-> "error", args |-> r.exc.args],
                      source_documents |-> <<>>],
          escaped |-> NoExc]

\* Python truth of a timestamp value: None and the empty string are false.
Truthy(v) == v \notin {None, ""}

EventGet(event, key, default) == IF key \in DOMAIN event THEN event[key] ELSE default

\* Mutant: the reply always starts a thread at the event itself.
ThreadTsOfEventOnly(event) == event["ts"]

\* event.get("thread_ts", None) or event["ts"]
ThreadTs(event) ==
    LET t == EventGet(event, "thread_ts", None)
    IN  IF Truthy(t) THEN t ELSE event["ts"]

\* The app_mention events: mentions at the top of a channel and in a thread.
Events ==
    {[user |-> "U1", text |-> "<@BOT> question", ts |-> "S1"],
     [user |-> "U1", text |-> "<@BOT> question", ts |-> "S2", thread_ts |-> "T1"]}

BotOff ==
    /\ bpc = "off"
    /\ mentions = <<>>
    /\ said = <<>>
    /\ escaped = <<>>

BotStart ==
    /\ bpc = "startup"
    /\ mentions = <<>>
    /\ said = <<>>
    /\ escaped = <<>>

\* Mutant: only the bot token is read at startup.
BotTokenOnly == "SLACK_BOT_TOKEN" \in env

\* The try block around the two os.environ reads of bot.py.
SlackConfigured == SlackVars \subseteq env

\* The module body of bot.py: read the Slack tokens or exit, build the app
\* and the agent, start the socket-mode handler.
BotStartup ==
    /\ bpc = "startup"
    /\ bpc' = IF SlackConfigured THEN "serving" ELSE "exited"
    /\ UNCHANGED <<env, fmtVars, ingestVars, agentVars, mentions, said, escaped>>

\* respond_to_mention(event, say)
RespondToMention ==
    /\ bpc = "serving"
    /\ Len(mentions) < MaxEvents
    /\ \E event \in Events, ext \in ExtOutcomes :
         LET r == Run(Agent, event.text, ext)
             t == TryRun(r)
         IN  /\ qa_chain' = r.qa_chain
             /\ bindCalls' = r.bindCalls
             /\ calls' = Append(calls, CallRecord("run", r))
             /\ mentions' = Append(mentions, [event |-> event, exc |-> r.exc,
                                              result |-> r.result])
             /\ IF t.escaped # NoExc
                THEN /\ escaped' = Append(escaped, t.escaped)
                     /\ UNCHANGED said
                ELSE /\ said' = Append(said,
                            [text |-> _message_builder(event, t.result),
                             thread_ts |-> ThreadTs(event),
                             reply_broadcast |-> TRUE])
                     /\ UNCHANGED escaped
    /\ UNCHANGED <<env, fmtVars, ingestVars, apc, bpc>>

BotNext == BotStartup \/ RespondToMention

(***************************************************************************)
(* The specifications of the agent and of the bot.                         *)
(***************************************************************************)
\* The ingestion run over every site, with its configuration in place.
IngestInit ==
    /\ env = EnvVars
    /\ FmtOff
    /\ IngestStart(Sites)
    /\ AgentOff
    /\ BotOff

SpecIngest == IngestInit /\ [][IngestNext]_vars

\* An agent used directly, as by the __main__ of saiteki_qa_agent.py.
AgentInit ==
    /\ env \in {EnvVars \ missing : missing \in SUBSET PineconeVars}
    /\ FmtOff
    /\ IngestOff
    /\ AgentStart
    /\ BotOff

SpecAgent == AgentInit /\ [][AgentNext]_vars

\* The bot process, under every environment.
BotInit ==
    /\ env \in SUBSET EnvVars
    /\ FmtOff
    /\ IngestOff
    /\ AgentOff
    /\ BotStart

SpecBot == BotInit /\ [][BotNext]_vars

\* The sites whose two category pages are alike and whose two section
\* pages are alike.
UniformSites ==
    {s \in Sites : /\ \A p, q \in DOMAIN s.cat : s.cat[p] = s.cat[q]
                   /\ \A p, q \in DOMAIN s.sec : s.sec[p] = s.sec[q]}

\* Either process, started under every environment.
StartupInit ==
    \/ BotInit
    \/ /\ env \in SUBSET EnvVars
       /\ FmtOff
       /\ IngestStart(UniformSites)
       /\ AgentOff
       /\ BotOff

StartupNext == BotNext \/ IngestNext

SpecStartup == StartupInit /\ [][StartupNext]_vars

(***************************************************************************)
(* Properties of the bot and of the agent.                                 *)
(***************************************************************************)
ErrorMessage(event, exc) ==
    <<MentionLine(event.user), AnswerLine([kind |-> "error", args |-> exc.args]),
      BlankLine>>

\* C1: every handled mention is answered by exactly one say, whether run
\* returned or raised; an exception of run does not leave the handler, and
\* the reply then carries the error text with the exception's arguments and
\* no source documents.
C1_OneReplyPerMention ==
    /\ escaped = <<>>
    /\ Len(said) = Len(mentions)
    /\ \A i \in 1..Len(mentions) :
          mentions[i].exc # NoExc =>
              said[i].text = ErrorMessage(mentions[i].event, mentions[i].exc)

\* Two mentions handled: run raised for one and returned for the other.
C1_Witness ==
    /\ Len(said) = 2
    /\ \E i, j \in 1..Len(mentions) :
          mentions[i].exc # NoExc /\ mentions[j].exc = NoExc

\* C2: the reply goes to the event's thread_ts when the event has one and to
\* the event's own ts otherwise, with reply_broadcast true, on the success
\* path and on the failure path alike.
C2_ReplyThread ==
    \A i \in 1..Len(said) :
        LET event == mentions[i].event
        IN  /\ said[i].reply_broadcast = TRUE
            /\ "thread_ts" \in DOMAIN event => said[i].thread_ts = event["thread_ts"]
            /\ "thread_ts" \notin DOMAIN event => said[i].thread_ts = event["ts"]

\* A failed run answered in the event's thread and a successful one answered
\* at the event itself.
C2_Witness ==
    \E i, j \in 1..Len(said) :
        /\ mentions[i].exc # NoExc /\ "thread_ts" \in DOMAIN mentions[i].event
        /\ said[i].thread_ts = "T1"
        /\ mentions[j].exc = NoExc /\ "thread_ts" \notin DOMAIN mentions[j].event
        /\ said[j].thread_ts = "S1"

Lines(text, kind) ==
    LET IsKind(line) == line.kind = kind IN SelectSeq(text, IsKind)

\* C3: the message holds the related-articles header if and only if the
\* result has source documents, and exactly one bullet line per source
\* document, in list order.
C3_RelatedArticles ==
    \A i \in 1..Len(said) :
        LET docs == IF mentions[i].exc = NoExc THEN mentions[i].result.source_documents
                    ELSE <<>>
            bullets == Lines(said[i].text, "bullet")
        IN  /\ Len(Lines(said[i].text, "header")) = IF Len(docs) > 0 THEN 1 ELSE 0
            /\ Len(bullets) = Len(docs)
            /\ \A j \in 1..Len(docs) :
                  bullets[j].url = docs[j].url /\ bullets[j].title = docs[j].title

\* A reply with two different articles and a reply to a run that found none.
C3_Witness ==
    \E i, j \in 1..Len(said) :
        /\ Len(Lines(said[i].text, "bullet")) = 2
        /\ Lines(said[i].text, "bullet")[1].url # Lines(said[i].text, "bullet")[2].url
        /\ mentions[j].exc = NoExc
        /\ Len(Lines(said[j].text, "header")) = 0

\* C4: once a run has left the agent with a pipeline, a later run with no
\* initialize_chain call in between uses that pipeline and binds to the
\* index no further; two runs, the first of which built the pipeline, make
\* one index-binding call in all.
C4_RunReusesPipeline ==
    /\ \A i, j \in 1..Len(calls) :
          ( /\ i < j
            /\ \A k \in i..j : calls[k].op = "run"
            /\ calls[i].chain # NoChain )
          => (calls[j].chain = calls[i].chain /\ calls[j].binds = calls[i].binds)
    /\ ( /\ Len(calls) >= 2
         /\ calls[1].op = "run" /\ calls[2].op = "run"
         /\ calls[1].chain # NoChain )
       => (calls[2].binds = 1 /\ calls[2].chain = Pipeline(1))

\* Two runs that both returned.
C4_Witness ==
    /\ Len(calls) = 2
    /\ calls[1].op = "run" /\ calls[1].exc = NoExc
    /\ calls[2].op = "run" /\ calls[2].exc = NoExc
    /\ bindCalls = 1

Ready == qa_chain # NoChain

\* C5: the agent is Uninitialized (qa_chain is None) or Ready (qa_chain
\* holds a pipeline); a run or initialize_chain call that returns leaves it
\* Ready, and no call moves it from Ready back to Uninitialized.
C5_Lifecycle ==
    /\ [](qa_chain = NoChain \/ \E n \in 1..bindCalls : qa_chain = Pipeline(n))
    /\ [](\A i \in 1..Len(calls) : calls[i].exc = NoExc => calls[i].chain # NoChain)
    /\ [][Ready => Ready']_vars

\* A run that failed to initialize, an initialize_chain call that made the
\* agent Ready, and a failing call that left it Ready.
C5_Witness ==
    /\ Len(calls) = 3
    /\ calls[1].op = "run" /\ calls[1].chain = NoChain
    /\ calls[2].op = "initialize_chain" /\ calls[2].chain # NoChain
    /\ calls[3].exc # NoExc
    /\ Ready

RECURSIVE Concat(_)
Concat(ss) == IF ss = <<>> THEN <<>> ELSE Head(ss) \o Concat(Tail(ss))

CategoryPage(i) == site.cat[root_urls[i][2]]

\* The article URLs in discovery order: root by root, within a root section
\* by section in page order, within a section in anchor order.
DiscoveryOrder ==
    Concat([i \in 1..Len(root_urls) |->
              Concat([j \in 1..Len(CategoryPage(i)) |->
                        UrlList(site.sec[CategoryPage(i)[j]])])])

\* get_documents_from_urls has returned its documents.
DocumentsReturned ==
    \/ ipc \in {"construct_store", "delete", "store", "done"}
    \/ ipc = "failed" /\ ierror.stage # "get_documents"

ZeroAnchors(h2s) == \A j \in 1..Len(h2s) : h2s[j] = NoAnchor

\* C8: a root listing page with zero matching anchors yields an empty list of
\* sub-section URLs and raises nothing, whatever its shape.
C8_ZeroAnchorsYieldNothing ==
    \A i \in 1..Len(root_urls) :
        ZeroAnchors(CategoryPage(i)) =>
            /\ ~(ipc = "failed" /\ rootIdx = i /\ ierror.error = "AttributeError")
            /\ (ipc = "get_documents" /\ rootIdx = i + 1 => part_page_urls = <<>>)

\* C10: an operation is issued on the index only once every article of the
\* crawl has been fetched; a run that fails while fetching leaves the index
\* as it was, a run that fails while storing has lost the previous contents.
C10_DeleteOnlyAfterCrawl ==
    /\ indexOps # <<>> =>
           /\ CrawlDone
           /\ Len(documents) = Len(content_urls)
           /\ \A i \in 1..Len(content_urls) :
                  \E j \in 1..Len(requests) : requests[j] = content_urls[i]
    /\ (ipc = "failed" /\ ierror.stage = "get_documents") =>
           /\ indexOps = <<>>
           /\ index = [previous |-> TRUE, stored |-> <<>>]
    /\ (ipc = "failed" /\ ierror.stage = "store") => ~index.previous

\* A crawl that failed after it had fetched an article.
C10_Witness ==
    /\ ipc = "failed"
    /\ ierror.stage = "get_documents"
    /\ Len(documents) >= 1
    /\ index.previous


(***************************************************************************)
(* Score formatting on its own: every score n / ScoreDen is formatted.     *)
(***************************************************************************)
FmtInit ==
    /\ env = EnvVars
    /\ fpc = "input"
    /\ score \in 0..ScoreDen
    /\ shown = -1
    /\ IngestOff
    /\ AgentOff
    /\ BotOff

FormatScore ==
    /\ fpc = "input"
    /\ shown' = ScoreText(score)
    /\ fpc' = "shown"
    /\ UNCHANGED <<env, score, ingestVars, agentVars, botVars>>

FmtNext == FormatScore

SpecFmt == FmtInit /\ [][FmtNext]_vars

\* C9: the percentage shown is the score rounded to two decimals, times 100.
C9_ShownIsRoundedPercent ==
    fpc = "shown" => shown = Hundredths(ToFloat(score))

====
